---- MODULE Spec2Model ----
(***************************************************************************)
(* Valve configurator: the rule engine of the form's submit handler.       *)
(*                                                                         *)
(* The handler reads the form, builds the insertion-ordered Set            *)
(* `recommendations` and the flag `suitable` from the primary function,    *)
(* the body/bonnet material and the seal surface material under the given  *)
(* temperature, pressure, fluid and nominal diameter, and then renders the *)
(* results panel.                                                          *)
(*                                                                         *)
(* Spec and SpecRepeat run that rule engine, once and repeatedly.           *)
(* SpecAsync and SpecOverlap run the handler that checks the pressure /    *)
(* temperature envelope and then awaits the recommendation service, one    *)
(* run at a time and with several runs awaiting at once.                   *)
(*                                                                         *)
(* Numbers: temperature and pressure are the floats parseFloat returns;    *)
(* they are modelled as integers counting 1/Scale of a degree or of a bar, *)
(* so that the source's threshold n is n * Scale.  Texts are sequences of  *)
(* one-character strings, so that toLowerCase, includes, replace and       *)
(* parseFloat are computed character by character as the source does.      *)
(***************************************************************************)
EXTENDS Integers, Sequences, FiniteSets, TLC

VARIABLES
    form,             \* the values of the form's fields at submission
    formValid,        \* what form.checkValidity() answers for this submission
    pc,               \* "ready": not yet submitted; "done": handler ran; "rejected": early return
    recommendations,  \* the handler's Set, in insertion order
    suitable,         \* the handler's flag
    materialViable,   \* the handler's local of the body material switch
    sealChecked,      \* whether the seal block was entered (sealSurfaceMaterial truthy)
    sealViable,       \* the seal block's local (FALSE while the block was not entered)
    valveList,        \* the <li> texts of #valveList
    noResultsHidden,  \* #noResultsMessage carries d-none
    resultsClasses,   \* the classes of #results the handler touches
    wasValidated,     \* the form carries was-validated
    response,         \* what the fetch of /recommend gave (kind "none" before it settles)
    log,              \* the evaluations so far: each form with the result it got
    calls             \* the runs of the async handler, in the order they were submitted

vars == <<form, formValid, pc, recommendations, suitable, materialViable,
          sealChecked, sealViable, valveList, noResultsHidden, resultsClasses,
          wasValidated, response, log, calls>>

-----------------------------------------------------------------------------
(* Bounds of the model *)

\* temperature and pressure count 1/Scale of a unit
Scale == 100
\* the samples lie Spread/Scale below, on and above each threshold of the source
Spread == 1
\* the number of evaluations a behaviour holds
MaxEvaluations == 3
\* the number of runs of the async handler a behaviour holds
MaxCalls == 2

-----------------------------------------------------------------------------
(* Text *)

Range(s) == {s[i] : i \in 1..Len(s)}

UpperCase == <<"A","B","C","D","E","F","G","H","I","J","K","L","M",
               "N","O","P","Q","R","S","T","U","V","W","X","Y","Z">>
LowerCase == <<"a","b","c","d","e","f","g","h","i","j","k","l","m",
               "n","o","p","q","r","s","t","u","v","w","x","y","z">>

\* String.prototype.toLowerCase on the characters the form can carry
ToLowerCase(s) ==
    [i \in 1..Len(s) |->
        IF \E k \in 1..26 : UpperCase[k] = s[i]
        THEN LowerCase[CHOOSE k \in 1..26 : UpperCase[k] = s[i]]
        ELSE s[i]]

\* String.prototype.includes: sub occurs in s as a contiguous run
Includes(s, sub) ==
    \E i \in 0..(Len(s) - Len(sub)) : SubSeq(s, i + 1, i + Len(sub)) = sub

Digits == <<"0","1","2","3","4","5","6","7","8","9">>
IsDigit(c) == \E k \in 1..10 : Digits[k] = c
DigitValue(c) == (CHOOSE k \in 1..10 : Digits[k] = c) - 1

\* s.replace(/[^\d.]/g, ''): every character that is neither a digit nor a dot is dropped
KeepDigitsAndDots(s) == SelectSeq(s, LAMBDA c : IsDigit(c) \/ c = ".")

\* the length of the longest run of digits of s that starts at position i
RECURSIVE DigitRun(_, _)
DigitRun(s, i) ==
    IF i <= Len(s) /\ IsDigit(s[i]) THEN 1 + DigitRun(s, i + 1) ELSE 0

\* the value of a sequence of digits read in base ten
RECURSIVE DecimalValue(_)
DecimalValue(ds) ==
    IF ds = <<>> THEN 0
    ELSE 10 * DecimalValue(SubSeq(ds, 1, Len(ds) - 1)) + DigitValue(ds[Len(ds)])

RECURSIVE Pow10(_)
Pow10(n) == IF n = 0 THEN 1 ELSE 10 * Pow10(n - 1)

\* parseFloat on a text of digits and dots: the longest prefix of the shape
\* digits [. digits] or . digits is read; without one the result is NaN.
\* The value is num / den.
ParseFloat(s) ==
    LET n    == DigitRun(s, 1)
        dot  == n + 1 <= Len(s) /\ s[n + 1] = "."
        m    == IF dot THEN DigitRun(s, n + 2) ELSE 0
        frac == SubSeq(s, n + 2, n + 1 + m)
    IN  IF n = 0 /\ m = 0
        THEN [nan |-> TRUE, num |-> 0, den |-> 1]
        ELSE [nan |-> FALSE,
              num |-> DecimalValue(SubSeq(s, 1, n) \o frac),
              den |-> Pow10(m)]

\* x > n for a parseFloat result x; every comparison with NaN is false
GreaterThan(x, n) == ~x.nan /\ x.num > n * x.den

\* Set.prototype.add on an insertion-ordered Set
SetAdd(set, x) == IF x \in Range(set) THEN set ELSE Append(set, x)

-----------------------------------------------------------------------------
(* The texts the handler adds to `recommendations` *)

GateValves == "Gate Valves (Vannes passage direct)"
ButterflyValvesOnOff == "Butterfly Valves (Vannes à papillon)"
BallValves == "Ball Valves (Robinets boisseau sphérique)"
KnifeGateValves == "Knife Gate Valves (Robinets vanne à guillotine)"
GlobeValves == "Globe Valves (Robinets à soupape)"
WeirDiaphragmValves == "Weir Type Diaphragm Valves (Robinet à membrane)"
NeedleValves == "Needle Valves (Robinets à pointeau)"
ButterflyValvesRegulation == "Butterfly Valves (Robinet vanne à papillon)"
KnifeGateValvesVDeflector == "Knife Gate Valves with \"V\" Deflector (Robinets vanne à guillotine avec \"V\" de régulation)"
SelectFunctionMessage == "Please select a primary function for the valve."

CastIronSteamWarning == "Warning: Cast Iron has limited use for steam above 10 bar / 180°C. Consider other materials for steam applications."
BrassSizeWarning == "Warning: Brass is generally limited to DN100. Consider other materials for larger diameters."
BrassChemicalWarning == "Warning: Brass is not suitable for corrosive fluids, acids, or ammonia."
BronzeChemicalWarning == "Warning: Bronze is not suitable for corrosive fluids, acids, or ammonia."
DuplexSeaWaterNote == "Duplex/Super Duplex is highly recommended for sea water applications."
SelectMaterialMessage == "Please select a body and bonnet material."
MaterialNoMatchMessage == "No valves found matching the selected body/bonnet material and operating conditions. Please review your material, temperature, and pressure selections."

ElastomerWarning == "Warning: Elastomer seals have low resistance to erosion and corrosion, and are sensitive to abrasion."
PtfeNuclearWarning == "Warning: PTFE is prohibited in nuclear power plants."
StelliteNote == "Stellite is recommended for severe conditions and abrasive fluids."
SealNoMatchMessage == "No valves found matching the selected seal surface material and operating conditions."

(* The keywords the handler looks for in the lower-cased texts *)
KwSteam == <<"s","t","e","a","m">>
KwCorrosive == <<"c","o","r","r","o","s","i","v","e">>
KwAcid == <<"a","c","i","d">>
KwAmmonia == <<"a","m","m","o","n","i","a">>
KwSeaWater == <<"s","e","a"," ","w","a","t","e","r">>
KwAbrasive == <<"a","b","r","a","s","i","v","e">>
KwNuclear == <<"n","u","c","l","e","a","r">>
KwDn100 == <<"d","n","1","0","0">>

-----------------------------------------------------------------------------
(* The handler's locals read from the form (lines 788-796) *)

\* const nominalDiameter = form.nominalDiameter.value.toLowerCase()
NominalDiameter(f) == ToLowerCase(f.nominalDiameter)
\* const fluidType = form.fluidType.value.toLowerCase()
FluidType(f) == ToLowerCase(f.fluidType)

-----------------------------------------------------------------------------
(* Logic based on Main Function *)

\* a variant of MainFunctionAdds: the on/off-and-regulation families in another order
MainFunctionAddsReordered(mainFunction) ==
    IF mainFunction = "on_off"
    THEN <<GateValves, ButterflyValvesOnOff, BallValves, KnifeGateValves>>
    ELSE IF mainFunction = "regulation"
    THEN <<GlobeValves, WeirDiaphragmValves, NeedleValves>>
    ELSE IF mainFunction = "on_off_regulation"
    THEN <<ButterflyValvesRegulation, WeirDiaphragmValves, GlobeValves,
           KnifeGateValvesVDeflector>>
    ELSE <<SelectFunctionMessage>>

\* what the if / else-if chain on mainFunction adds, in the order it adds it
MainFunctionAdds(mainFunction) ==
    IF mainFunction = "on_off"
    THEN <<GateValves, ButterflyValvesOnOff, BallValves, KnifeGateValves>>
    ELSE IF mainFunction = "regulation"
    THEN <<GlobeValves, WeirDiaphragmValves, NeedleValves>>
    ELSE IF mainFunction = "on_off_regulation"
    THEN <<WeirDiaphragmValves, ButterflyValvesRegulation, GlobeValves,
           KnifeGateValvesVDeflector>>
    ELSE <<SelectFunctionMessage>>

\* the final else of the chain is the only branch that clears `suitable`
MainFunctionKeepsSuitable(mainFunction) ==
    mainFunction \in {"on_off", "regulation", "on_off_regulation"}

RECURSIVE AddAll(_, _)
AddAll(set, xs) ==
    IF xs = <<>> THEN set ELSE AddAll(SetAdd(set, Head(xs)), Tail(xs))

\* st is the handler's running state [recommendations, suitable]
MainFunctionLogic(st, f) ==
    [st EXCEPT !.recommendations = AddAll(@, MainFunctionAdds(f.mainFunction)),
               !.suitable = @ /\ MainFunctionKeepsSuitable(f.mainFunction)]

-----------------------------------------------------------------------------
(* Logic based on Body & Bonnet Material and Operating Conditions *)
(* Each case takes and returns the running state                   *)
(* [recommendations, suitable, materialViable].                    *)

\* a variant of CastIron: the range check is an if of its own after the steam check
CastIronRangeAfterSteam(st, f) ==
    LET s1 == IF Includes(FluidType(f), KwSteam)
                 /\ (f.temperature > 180 * Scale \/ f.pressure > 10 * Scale)
              THEN [st EXCEPT !.materialViable = FALSE,
                              !.recommendations = SetAdd(@, CastIronSteamWarning)]
              ELSE st
    IN  IF f.temperature <= 184 * Scale /\ f.pressure <= 16 * Scale
        THEN [s1 EXCEPT !.materialViable = TRUE]
        ELSE s1

CastIron(st, f) ==
    IF Includes(FluidType(f), KwSteam)
       /\ (f.temperature > 180 * Scale \/ f.pressure > 10 * Scale)
    THEN [st EXCEPT !.materialViable = FALSE,
                    !.recommendations = SetAdd(@, CastIronSteamWarning)]
    ELSE IF f.temperature <= 184 * Scale /\ f.pressure <= 16 * Scale
    THEN [st EXCEPT !.materialViable = TRUE]
    ELSE st

\* a variant of DuctileIron: the temperature limit is that of carbon steel
DuctileIronHot(st, f) ==
    IF f.temperature <= 425 * Scale /\ f.pressure <= 25 * Scale
    THEN [st EXCEPT !.materialViable = TRUE]
    ELSE st

DuctileIron(st, f) ==
    IF f.temperature <= 350 * Scale /\ f.pressure <= 25 * Scale
    THEN [st EXCEPT !.materialViable = TRUE]
    ELSE st

CarbonSteel(st, f) ==
    IF f.temperature >= -20 * Scale /\ f.temperature <= 425 * Scale
       /\ f.pressure <= 400 * Scale
    THEN [st EXCEPT !.materialViable = TRUE]
    ELSE st

\* case 'stainless_steel': case 'stainless_steel_310': share one body
StainlessSteel(st, f) ==
    IF f.temperature >= -200 * Scale /\ f.temperature <= 420 * Scale
       /\ f.pressure <= 400 * Scale
    THEN [st EXCEPT !.materialViable = TRUE]
    ELSE st

\* nominalDiameter.includes('dn100') ||
\*   (nominalDiameter !== '' && parseFloat(nominalDiameter.replace(/[^\d.]/g, '')) > 100)
BrassSizeLimit(nominalDiameter) ==
    \/ Includes(nominalDiameter, KwDn100)
    \/ /\ nominalDiameter # <<>>
       /\ GreaterThan(ParseFloat(KeepDigitsAndDots(nominalDiameter)), 100)

\* fluidType.includes('corrosive') || fluidType.includes('acid') || fluidType.includes('ammonia')
CopperAlloyChemical(fluidType) ==
    \/ Includes(fluidType, KwCorrosive)
    \/ Includes(fluidType, KwAcid)
    \/ Includes(fluidType, KwAmmonia)

\* the three ifs of case 'brass' run one after the other
Brass(st, f) ==
    LET s1 == IF BrassSizeLimit(NominalDiameter(f))
              THEN [st EXCEPT !.materialViable = FALSE,
                              !.recommendations = SetAdd(@, BrassSizeWarning)]
              ELSE st
        s2 == IF CopperAlloyChemical(FluidType(f))
              THEN [s1 EXCEPT !.materialViable = FALSE,
                              !.recommendations = SetAdd(@, BrassChemicalWarning)]
              ELSE s1
    IN  IF f.temperature <= 100 * Scale /\ f.pressure <= 64 * Scale
        THEN [s2 EXCEPT !.materialViable = TRUE]
        ELSE s2

\* the two ifs of case 'bronze' run one after the other
Bronze(st, f) ==
    LET s1 == IF CopperAlloyChemical(FluidType(f))
              THEN [st EXCEPT !.materialViable = FALSE,
                              !.recommendations = SetAdd(@, BronzeChemicalWarning)]
              ELSE st
    IN  IF f.temperature <= 100 * Scale /\ f.pressure <= 64 * Scale
        THEN [s1 EXCEPT !.materialViable = TRUE]
        ELSE s1

\* a variant of DuplexSuperDuplex: the else branch is missing
DuplexOnlySeaWater(st, f) ==
    IF Includes(FluidType(f), KwSeaWater)
    THEN [st EXCEPT !.materialViable = TRUE,
                    !.recommendations = SetAdd(@, DuplexSeaWaterNote)]
    ELSE st

DuplexSuperDuplex(st, f) ==
    IF Includes(FluidType(f), KwSeaWater)
    THEN [st EXCEPT !.materialViable = TRUE,
                    !.recommendations = SetAdd(@, DuplexSeaWaterNote)]
    ELSE [st EXCEPT !.materialViable = TRUE]

\* a variant of Plastic: the limits are exclusive
PlasticExclusive(st, f) ==
    IF f.temperature < 60 * Scale /\ f.pressure < 16 * Scale
    THEN [st EXCEPT !.materialViable = TRUE]
    ELSE st

Plastic(st, f) ==
    IF f.temperature <= 60 * Scale /\ f.pressure <= 16 * Scale
    THEN [st EXCEPT !.materialViable = TRUE]
    ELSE st

\* a variant of NoMaterial: an unselected material is taken as viable
NoMaterialAssumedViable(st, f) ==
    [st EXCEPT !.materialViable = TRUE]

\* default: no material selected
NoMaterial(st, f) ==
    [st EXCEPT !.suitable = FALSE,
               !.recommendations = SetAdd(@, SelectMaterialMessage)]

\* let materialViable = false; switch (bodyBonnetMaterial) { ... }
MaterialSwitch(st, f) ==
    LET s0 == [recommendations |-> st.recommendations,
               suitable        |-> st.suitable,
               materialViable  |-> FALSE]
        m  == f.bodyBonnetMaterial
    IN  CASE m = "cast_iron"           -> CastIron(s0, f)
          [] m = "ductile_iron"        -> DuctileIron(s0, f)
          [] m = "carbon_steel"        -> CarbonSteel(s0, f)
          [] m = "stainless_steel"     -> StainlessSteel(s0, f)
          [] m = "stainless_steel_310" -> StainlessSteel(s0, f)
          [] m = "brass"               -> Brass(s0, f)
          [] m = "bronze"              -> Bronze(s0, f)
          [] m = "duplex_super_duplex" -> DuplexSuperDuplex(s0, f)
          [] m = "plastic"             -> Plastic(s0, f)
          [] OTHER                     -> NoMaterial(s0, f)

\* a variant of MaterialGate: the no-match message replaces what the Set held
MaterialGateClearsSet(st, f) ==
    IF ~st.materialViable /\ f.bodyBonnetMaterial # ""
    THEN [st EXCEPT !.suitable = FALSE,
                    !.recommendations = <<MaterialNoMatchMessage>>]
    ELSE st

\* if (!materialViable && bodyBonnetMaterial !== '') { suitable = false; add no-match }
MaterialGate(st, f) ==
    IF ~st.materialViable /\ f.bodyBonnetMaterial # ""
    THEN [st EXCEPT !.suitable = FALSE,
                    !.recommendations = SetAdd(@, MaterialNoMatchMessage)]
    ELSE st

-----------------------------------------------------------------------------
(* Logic based on Seal Surface Material *)
(* Each case takes and returns [recommendations, sealViable]. *)

\* a variant of Elastomer: the warning is looked at only when the temperature fits
ElastomerWarnsWhenCool(sl, f) ==
    IF f.temperature <= 120 * Scale
    THEN IF Includes(FluidType(f), KwAbrasive) \/ Includes(FluidType(f), KwCorrosive)
         THEN [sl EXCEPT !.recommendations = SetAdd(@, ElastomerWarning)]
         ELSE [sl EXCEPT !.sealViable = TRUE]
    ELSE sl

Elastomer(sl, f) ==
    LET v == f.temperature <= 120 * Scale
             /\ ~Includes(FluidType(f), KwAbrasive)
             /\ ~Includes(FluidType(f), KwCorrosive)
        s1 == IF v THEN [sl EXCEPT !.sealViable = TRUE] ELSE sl
    IN  IF Includes(FluidType(f), KwAbrasive) \/ Includes(FluidType(f), KwCorrosive)
        THEN [s1 EXCEPT !.recommendations = SetAdd(@, ElastomerWarning)]
        ELSE s1

Ptfe(sl, f) ==
    LET v == f.temperature <= 200 * Scale /\ ~Includes(FluidType(f), KwNuclear)
        s1 == IF v THEN [sl EXCEPT !.sealViable = TRUE] ELSE sl
    IN  IF Includes(FluidType(f), KwNuclear)
        THEN [s1 EXCEPT !.recommendations = SetAdd(@, PtfeNuclearWarning)]
        ELSE s1

RubberSeal(sl, f) ==
    IF f.temperature <= 130 * Scale THEN [sl EXCEPT !.sealViable = TRUE] ELSE sl

CopperAlloys(sl, f) ==
    IF f.temperature <= 200 * Scale /\ f.pressure <= 16 * Scale
    THEN [sl EXCEPT !.sealViable = TRUE]
    ELSE sl

\* a variant of StainlessSteelSeal: the limit is exclusive
StainlessSteelSealExclusive(sl, f) ==
    IF f.temperature > 420 * Scale THEN [sl EXCEPT !.sealViable = TRUE] ELSE sl

StainlessSteelSeal(sl, f) ==
    IF f.temperature >= 420 * Scale THEN [sl EXCEPT !.sealViable = TRUE] ELSE sl

Stellite(sl, f) ==
    [sl EXCEPT !.sealViable = TRUE,
               !.recommendations = SetAdd(@, StelliteNote)]

\* let sealViable = false; switch (sealSurfaceMaterial) { ... } (no default case)
SealSwitch(recs, f) ==
    LET s0 == [recommendations |-> recs, sealViable |-> FALSE]
        m  == f.sealSurfaceMaterial
    IN  CASE m = "elastomer"            -> Elastomer(s0, f)
          [] m = "ptfe"                 -> Ptfe(s0, f)
          [] m = "rubber_seal"          -> RubberSeal(s0, f)
          [] m = "copper_alloys"        -> CopperAlloys(s0, f)
          [] m = "stainless_steel_seal" -> StainlessSteelSeal(s0, f)
          [] m = "stellite"             -> Stellite(s0, f)
          [] OTHER                      -> s0

\* a variant of SealLogic: the block is entered whether or not a seal is selected
SealLogicAlwaysEntered(st, f) ==
    LET sl == SealSwitch(st.recommendations, f)
    IN  [recommendations |->
             IF sl.sealViable THEN sl.recommendations
             ELSE SetAdd(sl.recommendations, SealNoMatchMessage),
         suitable       |-> st.suitable /\ sl.sealViable,
         materialViable |-> st.materialViable,
         sealChecked    |-> TRUE,
         sealViable     |-> sl.sealViable]

\* a variant of SealLogic: a seal that is not viable leaves `suitable` as it was
SealLogicKeepsSuitable(st, f) ==
    IF f.sealSurfaceMaterial # ""
    THEN LET sl == SealSwitch(st.recommendations, f)
         IN  [recommendations |->
                  IF sl.sealViable THEN sl.recommendations
                  ELSE SetAdd(sl.recommendations, SealNoMatchMessage),
              suitable       |-> st.suitable,
              materialViable |-> st.materialViable,
              sealChecked    |-> TRUE,
              sealViable     |-> sl.sealViable]
    ELSE [recommendations |-> st.recommendations,
          suitable        |-> st.suitable,
          materialViable  |-> st.materialViable,
          sealChecked     |-> FALSE,
          sealViable      |-> FALSE]

\* if (sealSurfaceMaterial) { switch ...; if (!sealViable) { suitable = false; add no-match } }
\* st is [recommendations, suitable, materialViable]; the result adds sealChecked, sealViable
SealLogic(st, f) ==
    IF f.sealSurfaceMaterial # ""
    THEN LET sl == SealSwitch(st.recommendations, f)
         IN  [recommendations |->
                  IF sl.sealViable THEN sl.recommendations
                  ELSE SetAdd(sl.recommendations, SealNoMatchMessage),
              suitable       |-> st.suitable /\ sl.sealViable,
              materialViable |-> st.materialViable,
              sealChecked    |-> TRUE,
              sealViable     |-> sl.sealViable]
    ELSE [recommendations |-> st.recommendations,
          suitable        |-> st.suitable,
          materialViable  |-> st.materialViable,
          sealChecked     |-> FALSE,
          sealViable      |-> FALSE]

\* a variant of RuleEngine: the Set outlives the handler and is filled further
RuleEngineKeepsSet(f) ==
    LET s0 == [recommendations |-> recommendations, suitable |-> TRUE]
        s1 == MainFunctionLogic(s0, f)
        s2 == MaterialSwitch(s1, f)
        s3 == MaterialGate(s2, f)
    IN  SealLogic(s3, f)

\* a variant of RuleEngine: without a function the handler stops at the first problem
RuleEngineStopsAtFunction(f) ==
    LET s0 == [recommendations |-> <<>>, suitable |-> TRUE]
        s1 == MainFunctionLogic(s0, f)
        s2 == MaterialSwitch(s1, f)
        s3 == MaterialGate(s2, f)
    IN  IF s1.suitable
        THEN SealLogic(s3, f)
        ELSE [recommendations |-> s1.recommendations,
              suitable        |-> FALSE,
              materialViable  |-> FALSE,
              sealChecked     |-> FALSE,
              sealViable      |-> FALSE]

\* the rule engine: lines 813-937 run top to bottom
RuleEngine(f) ==
    LET s0 == [recommendations |-> <<>>, suitable |-> TRUE]
        s1 == MainFunctionLogic(s0, f)
        s2 == MaterialSwitch(s1, f)
        s3 == MaterialGate(s2, f)
    IN  SealLogic(s3, f)

-----------------------------------------------------------------------------
(* The results panel: dom is [valveList, noResultsHidden, resultsClasses] *)

\* valveList.innerHTML = ''; noResultsMessage.classList.add('d-none');
\* resultsDiv.classList.remove('d-none'); .remove('alert-warning'); .add('alert-info')
ResetPanel(dom) ==
    [valveList       |-> <<>>,
     noResultsHidden |-> TRUE,
     resultsClasses  |-> (dom.resultsClasses \ {"d-none", "alert-warning"})
                             \cup {"alert-info"}]

\* if (suitable && recommendations.size > 0) { one <li> per entry } else { no-results message }
Display(dom, res) ==
    IF res.suitable /\ Len(res.recommendations) > 0
    THEN [valveList       |-> res.recommendations,
          noResultsHidden |-> TRUE,
          resultsClasses  |-> dom.resultsClasses]
    ELSE [valveList       |-> <<>>,
          noResultsHidden |-> FALSE,
          resultsClasses  |-> (dom.resultsClasses \ {"alert-info"})
                                  \cup {"alert-warning"}]

\* the panel as the state holds it
Panel ==
    [valveList       |-> valveList,
     noResultsHidden |-> noResultsHidden,
     resultsClasses  |-> resultsClasses]

-----------------------------------------------------------------------------
(* The forms the model submits *)

Functions == {"", "on_off", "regulation", "on_off_regulation"}
Materials == {"", "cast_iron", "ductile_iron", "carbon_steel", "stainless_steel",
              "stainless_steel_310", "brass", "bronze", "duplex_super_duplex", "plastic"}
Seals == {"", "elastomer", "ptfe", "rubber_seal", "copper_alloys",
          "stainless_steel_seal", "stellite"}

NoText == <<>>
Steam == <<"S","t","e","a","m">>
CorrosiveFluid == <<"c","o","r","r","o","s","i","v","e"," ","f","l","u","i","d">>
Acid == <<"a","c","i","d">>
Ammonia == <<"a","m","m","o","n","i","a">>
SeaWater == <<"S","e","a"," ","W","a","t","e","r">>
SeaUnderscoreWater == <<"s","e","a","_","w","a","t","e","r">>
AbrasiveProducts == <<"a","b","r","a","s","i","v","e"," ","p","r","o","d","u","c","t","s">>
Nuclear == <<"n","u","c","l","e","a","r">>

Dn50 == <<"d","n","5","0">>
Dn100 == <<"D","N","1","0","0">>
Plain100 == <<"1","0","0">>
Dn150 == <<"d","n","1","5","0">>
Plain150 == <<"1","5","0">>
Plain100Point5 == <<"1","0","0",".","5">>

\* fluids that reach a body-material rule, and the others
BodyFluids == {NoText, Steam, CorrosiveFluid, Acid, Ammonia, SeaWater,
               SeaUnderscoreWater}
SealFluids == {NoText, CorrosiveFluid, AbrasiveProducts, Nuclear}
Diameters == {NoText, Dn50, Dn100, Plain100, Dn150, Plain150, Plain100Point5}

\* the thresholds the body-material cases compare temperature and pressure with
MaterialTempThresholds == {-200, -20, 60, 100, 180, 184, 350, 420, 425, 550}
MaterialPressureThresholds == {10, 16, 25, 64, 400}

\* just below, on and just above each threshold
Around(thresholds) ==
    UNION {{b * Scale - Spread, b * Scale, b * Scale + Spread} : b \in thresholds}

GridTemperatures == Around(MaterialTempThresholds)
GridPressures == {p \in Around(MaterialPressureThresholds) \cup {0} : p >= 0}

CoarseTemperatures == {-50 * Scale, 50 * Scale, 150 * Scale, 500 * Scale}
CoarsePressures == {5 * Scale, 100 * Scale}

FormRecord(fn, mat, seal, t, p, fluid, dn) ==
    [mainFunction        |-> fn,
     bodyBonnetMaterial  |-> mat,
     sealSurfaceMaterial |-> seal,
     temperature         |-> t,
     pressure            |-> p,
     fluidType           |-> fluid,
     nominalDiameter     |-> dn]

\* every body material on the grid of thresholds, with every body fluid
GridForm(f) ==
    \E mat \in Materials, t \in GridTemperatures, p \in GridPressures,
       fluid \in BodyFluids :
        f = FormRecord("regulation", mat, "", t, p, fluid, NoText)

\* brass, and duplex beside it, with every diameter, around the limits of brass
DiameterForm(f) ==
    \E mat \in {"brass", "duplex_super_duplex"},
       t \in Around({50, 100}), p \in Around({20, 64}),
       fluid \in {NoText, Acid}, dn \in Diameters :
        f = FormRecord("regulation", mat, "", t, p, fluid, dn)

\* the thresholds the seal cases compare temperature and pressure with
SealTempThresholds == {120, 130, 200, 420}
SealPressureThresholds == {16}

\* every seal on the grid of its thresholds, with every seal fluid
SealForm(f) ==
    \E seal \in Seals, t \in Around(SealTempThresholds),
       p \in Around(SealPressureThresholds), fluid \in SealFluids :
        f = FormRecord("regulation", "carbon_steel", seal, t, p, fluid, NoText)

\* every function with every body material and every seal, on a coarse grid
\* the stainless steel seal with every body, around the bodies' upper
\* temperature limits and the seal's lower one
SealBodyTempThresholds == {60, 100, 184, 350, 420}
SealBodyForm(f) ==
    \E fn \in {"on_off", "regulation"}, mat \in Materials \ {""},
       t \in Around(SealBodyTempThresholds), p \in {5 * Scale, 100 * Scale},
       fluid \in {NoText, Steam} :
        f = FormRecord(fn, mat, "stainless_steel_seal", t, p, fluid, Dn50)

CrossForm(f) ==
    \E fn \in Functions, mat \in Materials, seal \in Seals,
       t \in CoarseTemperatures, p \in CoarsePressures, fluid \in SealFluids :
        f = FormRecord(fn, mat, seal, t, p, fluid, NoText)

-----------------------------------------------------------------------------
(* The state machine *)

\* no fetch has settled
NoResponse ==
    [kind |-> "none", listed |-> FALSE, recommendations |-> <<>>, suitable |-> "absent"]

\* one entry of the log: the form, what the handler computed, what it displayed
Evaluation(f, res, dom) ==
    [form            |-> f,
     recommendations |-> res.recommendations,
     suitable        |-> res.suitable,
     valveList       |-> dom.valveList,
     noResultsHidden |-> dom.noResultsHidden,
     resultsClasses  |-> dom.resultsClasses]

Init ==
    /\ \/ GridForm(form) \/ DiameterForm(form) \/ CrossForm(form)
       \/ SealForm(form) \/ SealBodyForm(form)
    /\ formValid \in BOOLEAN
    /\ pc = "ready"
    /\ recommendations = <<>>
    /\ suitable = TRUE
    /\ materialViable = FALSE
    /\ sealChecked = FALSE
    /\ sealViable = FALSE
    /\ valveList = <<>>
    /\ noResultsHidden = TRUE
    /\ resultsClasses = {"d-none"}
    /\ wasValidated = FALSE
    /\ response = NoResponse
    /\ log = <<>>
    /\ calls = <<>>

\* if (!form.checkValidity()) { form.classList.add('was-validated'); return; }
SubmitInvalid ==
    /\ pc = "ready"
    /\ ~formValid
    /\ pc' = "rejected"
    /\ wasValidated' = TRUE
    /\ UNCHANGED <<form, formValid, recommendations, suitable, materialViable,
                   sealChecked, sealViable, valveList, noResultsHidden,
                   resultsClasses, response, log, calls>>

\* the submit handler on a valid form
Submit ==
    /\ pc = "ready"
    /\ formValid
    /\ Len(log) < MaxEvaluations
    /\ LET res == RuleEngine(form)
           dom == Display(ResetPanel(Panel), res)
       IN  /\ recommendations' = res.recommendations
           /\ suitable' = res.suitable
           /\ materialViable' = res.materialViable
           /\ sealChecked' = res.sealChecked
           /\ sealViable' = res.sealViable
           /\ valveList' = dom.valveList
           /\ noResultsHidden' = dom.noResultsHidden
           /\ resultsClasses' = dom.resultsClasses
           /\ log' = Append(log, Evaluation(form, res, dom))
    /\ pc' = "done"
    /\ UNCHANGED <<form, formValid, wasValidated, response, calls>>

Next == SubmitInvalid \/ Submit

Spec == Init /\ [][Next]_vars

-----------------------------------------------------------------------------
(* The rule engine submitted again and again, the user editing the form *)

\* forms with different outcomes: suitable, several problems at once, a
\* warning with a viable material, a note with a viable seal, a seal too hot
RepeatForms ==
    {FormRecord("on_off", "carbon_steel", "", 50 * Scale, 5 * Scale, NoText, NoText),
     FormRecord("", "brass", "elastomer", 150 * Scale, 5 * Scale, CorrosiveFluid, Dn150),
     FormRecord("regulation", "cast_iron", "", 150 * Scale, 5 * Scale, Steam, NoText),
     FormRecord("on_off_regulation", "stainless_steel", "stellite", 150 * Scale,
                5 * Scale, NoText, NoText),
     FormRecord("regulation", "carbon_steel", "rubber_seal", 150 * Scale, 5 * Scale,
                NoText, NoText)}

InitRepeat ==
    /\ form \in RepeatForms
    /\ formValid \in BOOLEAN
    /\ pc = "ready"
    /\ recommendations = <<>>
    /\ suitable = TRUE
    /\ materialViable = FALSE
    /\ sealChecked = FALSE
    /\ sealViable = FALSE
    /\ valveList = <<>>
    /\ noResultsHidden = TRUE
    /\ resultsClasses = {"d-none"}
    /\ wasValidated = FALSE
    /\ response = NoResponse
    /\ log = <<>>
    /\ calls = <<>>

\* the user changes the fields after a submission; the page keeps what it shows
EditForm ==
    /\ pc \in {"done", "rejected"}
    /\ form' \in RepeatForms
    /\ formValid' \in BOOLEAN
    /\ pc' = "ready"
    /\ UNCHANGED <<recommendations, suitable, materialViable, sealChecked,
                   sealViable, valveList, noResultsHidden, resultsClasses,
                   wasValidated, response, log, calls>>

NextRepeat == SubmitInvalid \/ Submit \/ EditForm

SpecRepeat == InitRepeat /\ [][NextRepeat]_vars

-----------------------------------------------------------------------------
(* The handler that asks the recommendation service (lines 317-470) *)

FlashingVacuumWarning ==
    "Warning: High temperature with very low pressure may indicate flashing fluids or vacuum service. Specialized valves (e.g., globe valves for flashing, or specific materials/designs for vacuum) may be required. Consult a specialist."
CryogenicHighPressureWarning ==
    "Warning: Very low temperature combined with high pressure might require cryogenic or high-pressure gas service valves. Ensure material selection (e.g., stainless steel, special alloys) is appropriate for these extreme conditions."
SuperCriticalWarning ==
    "Warning: Extremely high pressure and high temperature conditions indicate a super-critical fluid or very specialized application. Valve design and material selection are critical and require expert consultation."
CryogenicVacuumWarning ==
    "Warning: Very low pressure combined with very low temperature suggests cryogenic vacuum service. This requires highly specialized valve designs and materials to prevent leakage and material embrittlement."
HighPressureCryogenicGasWarning ==
    "Warning: Very high pressure at low temperatures (below 0°C) indicates high-pressure cryogenic gas service. This requires robust materials and specialized sealing to prevent embrittlement and leakage."
HighTemperatureVacuumWarning ==
    "Warning: Very low pressure at extremely high temperatures (above 400°C) suggests high-temperature vacuum or highly expanded gas. This requires specialized valve designs for sealing and material resistance to creep/oxidation."
NoAiRecommendationsMessage ==
    "No specific recommendations from AI. Please adjust your selections."
ServiceErrorMessage ==
    "Error contacting the recommendation service. Please ensure the Python backend is running and reachable."

\* Define thresholds for extreme conditions
HIGH_TEMP_THRESHOLD == 100
LOW_PRESSURE_THRESHOLD == 1
VERY_LOW_TEMP_THRESHOLD == 0
HIGH_PRESSURE_THRESHOLD == 50
EXTREME_HIGH_TEMP_THRESHOLD == 400
EXTREME_HIGH_PRESSURE_THRESHOLD == 200
EXTREME_LOW_TEMP_THRESHOLD == -50
\* 0.1, as a fraction
VACUUM_PRESSURE_THRESHOLD == [num |-> 1, den |-> 10]

\* x < r for a sampled number x and a fraction r
LessThanFraction(x, r) == x * r.den < r.num * Scale

\* the conditions of the if / else-if chain, in its order
\* a variant of FlashingVacuum: the temperature comparison is not strict
FlashingVacuumInclusive(f) ==
    /\ f.temperature >= HIGH_TEMP_THRESHOLD * Scale
    /\ f.pressure < LOW_PRESSURE_THRESHOLD * Scale

FlashingVacuum(f) ==
    /\ f.temperature > HIGH_TEMP_THRESHOLD * Scale
    /\ f.pressure < LOW_PRESSURE_THRESHOLD * Scale

CryogenicHighPressure(f) ==
    /\ f.temperature < VERY_LOW_TEMP_THRESHOLD * Scale
    /\ f.pressure > HIGH_PRESSURE_THRESHOLD * Scale

\* a variant of SuperCritical: the comparisons are not strict
SuperCriticalInclusive(f) ==
    /\ f.pressure >= EXTREME_HIGH_PRESSURE_THRESHOLD * Scale
    /\ f.temperature >= EXTREME_HIGH_TEMP_THRESHOLD * Scale

SuperCritical(f) ==
    /\ f.pressure > EXTREME_HIGH_PRESSURE_THRESHOLD * Scale
    /\ f.temperature > EXTREME_HIGH_TEMP_THRESHOLD * Scale

CryogenicVacuum(f) ==
    /\ LessThanFraction(f.pressure, VACUUM_PRESSURE_THRESHOLD)
    /\ f.temperature < EXTREME_LOW_TEMP_THRESHOLD * Scale

HighPressureCryogenicGas(f) ==
    /\ f.pressure > EXTREME_HIGH_PRESSURE_THRESHOLD * Scale
    /\ f.temperature < VERY_LOW_TEMP_THRESHOLD * Scale

HighTemperatureVacuum(f) ==
    /\ f.pressure < LOW_PRESSURE_THRESHOLD * Scale
    /\ f.temperature > EXTREME_HIGH_TEMP_THRESHOLD * Scale

\* one branch of the chain: the warning is added and suitable is cleared
Anomaly(st, warning) ==
    [recommendations |-> SetAdd(st.recommendations, warning), suitable |-> FALSE]

\* a variant of EnvelopeDetector: six independent ifs
EnvelopeDetectorIndependent(st, f) ==
    LET s1 == IF FlashingVacuum(f) THEN Anomaly(st, FlashingVacuumWarning) ELSE st
        s2 == IF CryogenicHighPressure(f)
              THEN Anomaly(s1, CryogenicHighPressureWarning) ELSE s1
        s3 == IF SuperCritical(f) THEN Anomaly(s2, SuperCriticalWarning) ELSE s2
        s4 == IF CryogenicVacuum(f) THEN Anomaly(s3, CryogenicVacuumWarning) ELSE s3
        s5 == IF HighPressureCryogenicGas(f)
              THEN Anomaly(s4, HighPressureCryogenicGasWarning) ELSE s4
    IN  IF HighTemperatureVacuum(f)
        THEN Anomaly(s5, HighTemperatureVacuumWarning) ELSE s5

\* the pressure / temperature relationship logic, on [recommendations, suitable]
EnvelopeDetector(st, f) ==
    IF FlashingVacuum(f) THEN Anomaly(st, FlashingVacuumWarning)
    ELSE IF CryogenicHighPressure(f) THEN Anomaly(st, CryogenicHighPressureWarning)
    ELSE IF SuperCritical(f) THEN Anomaly(st, SuperCriticalWarning)
    ELSE IF CryogenicVacuum(f) THEN Anomaly(st, CryogenicVacuumWarning)
    ELSE IF HighPressureCryogenicGas(f)
         THEN Anomaly(st, HighPressureCryogenicGasWarning)
    ELSE IF HighTemperatureVacuum(f) THEN Anomaly(st, HighTemperatureVacuumWarning)
    ELSE st

\* what the service may answer: fetch rejects, the status is not ok, json()
\* rejects, or data arrives; `listed` says whether data.recommendations is there
AdvisoryLists == {<<>>, <<GlobeValves>>, <<BallValves, GateValves>>}

Responses ==
    {[kind |-> k, listed |-> FALSE, recommendations |-> <<>>, suitable |-> "absent"] :
         k \in {"network_error", "http_error", "malformed"}}
    \cup
    {[kind |-> "ok", listed |-> l, recommendations |-> IF l THEN recs ELSE <<>>,
      suitable |-> s] :
         l \in BOOLEAN, recs \in AdvisoryLists, s \in {"true", "false", "absent"}}

\* a variant of AdvisoryResult: the answer cannot lift a cleared suitable
AdvisoryResultKeepsMark(st, r) ==
    IF r.kind = "ok"
    THEN IF r.listed /\ Len(r.recommendations) > 0
         THEN [recommendations |-> AddAll(st.recommendations, r.recommendations),
               suitable        |-> st.suitable /\ r.suitable # "false"]
         ELSE [recommendations |-> SetAdd(st.recommendations, NoAiRecommendationsMessage),
               suitable        |-> FALSE]
    ELSE [recommendations |-> SetAdd(st.recommendations, ServiceErrorMessage),
          suitable        |-> FALSE]

\* the try / catch around fetch, on [recommendations, suitable]
AdvisoryResult(st, r) ==
    IF r.kind = "ok"
    THEN IF r.listed /\ Len(r.recommendations) > 0
         THEN [recommendations |-> AddAll(st.recommendations, r.recommendations),
               suitable        |-> r.suitable # "false"]
         ELSE [recommendations |-> SetAdd(st.recommendations, NoAiRecommendationsMessage),
               suitable        |-> FALSE]
    ELSE [recommendations |-> SetAdd(st.recommendations, ServiceErrorMessage),
          suitable        |-> FALSE]

\* temperatures and pressures around the thresholds of the chain
EnvelopeTempThresholds ==
    {EXTREME_LOW_TEMP_THRESHOLD, VERY_LOW_TEMP_THRESHOLD, HIGH_TEMP_THRESHOLD,
     EXTREME_HIGH_TEMP_THRESHOLD}
EnvelopePressureThresholds ==
    {LOW_PRESSURE_THRESHOLD, HIGH_PRESSURE_THRESHOLD, EXTREME_HIGH_PRESSURE_THRESHOLD}
EnvelopeTemperatures ==
    Around(EnvelopeTempThresholds) \cup {50 * Scale, 450 * Scale, 500 * Scale}
EnvelopePressures ==
    Around(EnvelopePressureThresholds)
        \cup {0, (Scale \div 10) - Spread, Scale \div 10, (Scale \div 10) + Spread,
              Scale \div 2, 20 * Scale, 250 * Scale}

EnvelopeForm(f) ==
    \E t \in EnvelopeTemperatures, p \in EnvelopePressures :
        f = FormRecord("on_off", "carbon_steel", "", t, p, NoText, NoText)

InitAsync ==
    /\ EnvelopeForm(form)
    /\ formValid \in BOOLEAN
    /\ pc = "ready"
    /\ recommendations = <<>>
    /\ suitable = TRUE
    /\ materialViable = FALSE
    /\ sealChecked = FALSE
    /\ sealViable = FALSE
    /\ valveList = <<>>
    /\ noResultsHidden = TRUE
    /\ resultsClasses = {"d-none"}
    /\ wasValidated = FALSE
    /\ response = NoResponse
    /\ log = <<>>
    /\ calls = <<>>

\* the handler on a valid form, up to `await fetch`
AsyncSubmit ==
    /\ pc = "ready"
    /\ formValid
    /\ Len(log) < MaxEvaluations
    /\ LET dom == ResetPanel(Panel)
           st  == EnvelopeDetector([recommendations |-> <<>>, suitable |-> TRUE], form)
       IN  /\ valveList' = dom.valveList
           /\ noResultsHidden' = dom.noResultsHidden
           /\ resultsClasses' = dom.resultsClasses
           /\ recommendations' = st.recommendations
           /\ suitable' = st.suitable
    /\ pc' = "awaiting"
    /\ UNCHANGED <<form, formValid, materialViable, sealChecked, sealViable,
                   wasValidated, response, log, calls>>

\* the rest of the handler, once the service has answered or failed
AsyncResponse ==
    /\ pc = "awaiting"
    /\ \E r \in Responses :
         LET res == AdvisoryResult([recommendations |-> recommendations,
                                    suitable        |-> suitable], r)
             dom == Display(Panel, res)
         IN  /\ response' = r
             /\ recommendations' = res.recommendations
             /\ suitable' = res.suitable
             /\ valveList' = dom.valveList
             /\ noResultsHidden' = dom.noResultsHidden
             /\ resultsClasses' = dom.resultsClasses
             /\ log' = Append(log, Evaluation(form, res, dom))
    /\ pc' = "done"
    /\ UNCHANGED <<form, formValid, materialViable, sealChecked, sealViable,
                   wasValidated, calls>>

NextAsync == SubmitInvalid \/ AsyncSubmit \/ AsyncResponse

SpecAsync == InitAsync /\ [][NextAsync]_vars

-----------------------------------------------------------------------------
(* The same handler submitted again while earlier runs await the service *)

\* no rule fires; rule 3 fires; rule 1 fires
OverlapForms ==
    {FormRecord("on_off", "carbon_steel", "", 50 * Scale, 20 * Scale, NoText, NoText),
     FormRecord("regulation", "stainless_steel", "", 450 * Scale, 250 * Scale,
                NoText, NoText),
     FormRecord("on_off", "carbon_steel", "", 500 * Scale, 0, NoText, NoText)}

\* fetch rejects; data without a list; a list alone; a list with suitable: false
OverlapResponses ==
    {r \in Responses :
        \/ r.kind = "network_error"
        \/ r.kind = "ok" /\ ~r.listed /\ r.suitable = "absent"
        \/ r.kind = "ok" /\ r.recommendations = <<GlobeValves>> /\ r.suitable = "absent"
        \/ /\ r.kind = "ok"
           /\ r.recommendations = <<BallValves, GateValves>>
           /\ r.suitable = "false"}

InitOverlap ==
    /\ form \in OverlapForms
    /\ formValid \in BOOLEAN
    /\ pc = "ready"
    /\ recommendations = <<>>
    /\ suitable = TRUE
    /\ materialViable = FALSE
    /\ sealChecked = FALSE
    /\ sealViable = FALSE
    /\ valveList = <<>>
    /\ noResultsHidden = TRUE
    /\ resultsClasses = {"d-none"}
    /\ wasValidated = FALSE
    /\ response = NoResponse
    /\ log = <<>>
    /\ calls = <<>>

\* a variant of CallLocals: the Set and the flag are shared by all runs
CallLocalsShared(c) ==
    [recommendations |-> recommendations, suitable |-> suitable]

\* `let recommendations`, `let suitable`: each run of the handler has its own
CallLocals(c) ==
    [recommendations |-> c.recommendations, suitable |-> c.suitable]

\* a run of the handler on a valid form, up to `await fetch`; the page stays
\* ready for the next submit event
OverlapSubmit ==
    /\ pc = "ready"
    /\ formValid
    /\ Len(calls) < MaxCalls
    /\ LET dom == ResetPanel(Panel)
           st  == EnvelopeDetector([recommendations |-> <<>>, suitable |-> TRUE], form)
       IN  /\ valveList' = dom.valveList
           /\ noResultsHidden' = dom.noResultsHidden
           /\ resultsClasses' = dom.resultsClasses
           /\ recommendations' = st.recommendations
           /\ suitable' = st.suitable
           /\ calls' = Append(calls, [form            |-> form,
                                      recommendations |-> st.recommendations,
                                      suitable        |-> st.suitable,
                                      response        |-> NoResponse])
    /\ UNCHANGED <<form, formValid, pc, materialViable, sealChecked, sealViable,
                   wasValidated, response, log>>

\* one of the awaiting runs resumes: its request settled
OverlapResponse ==
    \E i \in 1..Len(calls) :
        /\ calls[i].response = NoResponse
        /\ \E r \in OverlapResponses :
             LET res == AdvisoryResult(CallLocals(calls[i]), r)
                 dom == Display(Panel, res)
             IN  /\ calls' = [calls EXCEPT ![i] =
                                  [form            |-> calls[i].form,
                                   recommendations |-> res.recommendations,
                                   suitable        |-> res.suitable,
                                   response        |-> r]]
                 /\ response' = r
                 /\ recommendations' = res.recommendations
                 /\ suitable' = res.suitable
                 /\ valveList' = dom.valveList
                 /\ noResultsHidden' = dom.noResultsHidden
                 /\ resultsClasses' = dom.resultsClasses
                 /\ log' = Append(log, Evaluation(calls[i].form, res, dom))
        /\ UNCHANGED <<form, formValid, pc, materialViable, sealChecked, sealViable,
                       wasValidated>>

\* the user changes the fields, whether or not runs are awaiting
OverlapEdit ==
    /\ form' \in OverlapForms
    /\ formValid' \in BOOLEAN
    /\ pc' = "ready"
    /\ UNCHANGED <<recommendations, suitable, materialViable, sealChecked,
                   sealViable, valveList, noResultsHidden, resultsClasses,
                   wasValidated, response, log, calls>>

NextOverlap == SubmitInvalid \/ OverlapSubmit \/ OverlapResponse \/ OverlapEdit

SpecOverlap == InitOverlap /\ [][NextOverlap]_vars

-----------------------------------------------------------------------------
(* What the specification states, in its own terms *)

\* a primary function is selected
FunctionSelected(fn) == fn \in {"on_off", "regulation", "on_off_regulation"}

\* the texts that name valve families
FamilyTexts ==
    {GateValves, ButterflyValvesOnOff, BallValves, KnifeGateValves, GlobeValves,
     WeirDiaphragmValves, NeedleValves, ButterflyValvesRegulation,
     KnifeGateValvesVDeflector}

\* the candidate families of a result: the family entries, in insertion order
CandidateFamilies(recs) == SelectSeq(recs, LAMBDA r : r \in FamilyTexts)

\* the family identifier a text stands for
FamilyId(text) ==
    CASE text = GateValves                -> "Gate"
      [] text = ButterflyValvesOnOff      -> "Butterfly"
      [] text = ButterflyValvesRegulation -> "Butterfly"
      [] text = BallValves                -> "Ball"
      [] text = KnifeGateValves           -> "KnifeGate"
      [] text = GlobeValves               -> "Globe"
      [] text = WeirDiaphragmValves       -> "WeirDiaphragm"
      [] text = NeedleValves              -> "Needle"
      [] text = KnifeGateValvesVDeflector -> "KnifeGateWithVDeflector"
      [] OTHER                            -> "none"

FamilyIds(recs) == [i \in 1..Len(recs) |-> FamilyId(recs[i])]

\* the mapping of section 4.1
ExpectedFamilies(fn) ==
    CASE fn = "on_off"            -> <<"Gate", "Butterfly", "Ball", "KnifeGate">>
      [] fn = "regulation"        -> <<"Globe", "WeirDiaphragm", "Needle">>
      [] fn = "on_off_regulation" -> <<"WeirDiaphragm", "Butterfly", "Globe",
                                       "KnifeGateWithVDeflector">>
      [] OTHER                    -> <<>>

NoDuplicates(s) == \A i, j \in 1..Len(s) : s[i] = s[j] => i = j

\* the range column of the table of section 4.2
TableRange(mat, t, p) ==
    CASE mat = "cast_iron"           -> t <= 184 * Scale /\ p <= 16 * Scale
      [] mat = "ductile_iron"        -> t <= 350 * Scale /\ p <= 25 * Scale
      [] mat = "carbon_steel"        -> -20 * Scale <= t /\ t <= 425 * Scale /\ p <= 400 * Scale
      [] mat = "stainless_steel"     -> -200 * Scale <= t /\ t <= 420 * Scale /\ p <= 400 * Scale
      [] mat = "stainless_steel_310" -> -200 * Scale <= t /\ t <= 550 * Scale /\ p <= 400 * Scale
      [] mat = "brass"               -> t <= 100 * Scale /\ p <= 64 * Scale
      [] mat = "bronze"              -> t <= 100 * Scale /\ p <= 64 * Scale
      [] mat = "duplex_super_duplex" -> TRUE
      [] mat = "plastic"             -> t <= 60 * Scale /\ p <= 16 * Scale
      [] OTHER                       -> FALSE

\* the fluid carries a keyword
Contains(f, kw) == Includes(ToLowerCase(f.fluidType), kw)

\* the nominal diameter denotes a size above DN100
OverDn100(f) ==
    GreaterThan(ParseFloat(KeepDigitsAndDots(ToLowerCase(f.nominalDiameter))), 100)

\* the steam limit of cast iron
SteamLimit(f) ==
    Contains(f, KwSteam) /\ (f.temperature > 180 * Scale \/ f.pressure > 10 * Scale)

\* the fluid carries none of the keywords of the overrides of section 4.2
NoOverrideKeyword(f) ==
    /\ ~Contains(f, KwSteam)
    /\ ~Contains(f, KwCorrosive)
    /\ ~Contains(f, KwAcid)
    /\ ~Contains(f, KwAmmonia)

\* the warnings of the restrictive overrides of section 4.2
OverrideWarnings ==
    {CastIronSteamWarning, BrassSizeWarning, BrassChemicalWarning, BronzeChemicalWarning}

\* the viability column of the table of section 4.3
SealTable(f) ==
    LET seal == f.sealSurfaceMaterial
    IN  CASE seal = "elastomer" ->
                 /\ f.temperature <= 120 * Scale
                 /\ ~Contains(f, KwAbrasive)
                 /\ ~Contains(f, KwCorrosive)
          [] seal = "ptfe" -> f.temperature <= 200 * Scale /\ ~Contains(f, KwNuclear)
          [] seal = "rubber_seal" -> f.temperature <= 130 * Scale
          [] seal = "copper_alloys" ->
                 f.temperature <= 200 * Scale /\ f.pressure <= 16 * Scale
          [] seal = "stainless_steel_seal" -> f.temperature >= 420 * Scale
          [] seal = "stellite" -> TRUE
          [] OTHER -> FALSE

\* the texts only the seal evaluator emits
SealTexts == {ElastomerWarning, PtfeNuclearWarning, StelliteNote, SealNoMatchMessage}

\* the entries of a result that name no family
Warnings(recs) == {r \in Range(recs) : r \notin FamilyTexts}

SealOk == form.sealSurfaceMaterial = "" \/ sealViable

\* the six warnings of section 4.4, by rule number
RuleWarning(k) ==
    CASE k = 1 -> FlashingVacuumWarning
      [] k = 2 -> CryogenicHighPressureWarning
      [] k = 3 -> SuperCriticalWarning
      [] k = 4 -> CryogenicVacuumWarning
      [] k = 5 -> HighPressureCryogenicGasWarning
      [] k = 6 -> HighTemperatureVacuumWarning

EnvelopeTexts == {RuleWarning(k) : k \in 1..6}

\* the condition of rule k of section 4.4 on temperature t and pressure p
RuleCondition(k, t, p) ==
    CASE k = 1 -> t > 100 * Scale /\ p < 1 * Scale
      [] k = 2 -> t < 0 /\ p > 50 * Scale
      [] k = 3 -> p > 200 * Scale /\ t > 400 * Scale
      [] k = 4 -> 10 * p < Scale /\ t < -50 * Scale
      [] k = 5 -> p > 200 * Scale /\ t < 0
      [] k = 6 -> p < 1 * Scale /\ t > 400 * Scale

\* the first rule whose condition holds, 0 when none does
FirstRule(f) ==
    LET holding == {k \in 1..6 : RuleCondition(k, f.temperature, f.pressure)}
    IN  IF holding = {} THEN 0
        ELSE CHOOSE k \in holding : \A j \in holding : k <= j

\* the envelope warnings of a result, in its order
EnvelopeWarnings(recs) == SelectSeq(recs, LAMBDA r : r \in EnvelopeTexts)

\* the handler has run the pressure / temperature logic
Detected == pc \in {"awaiting", "done"}

\* the texts the request contributes: the service's list, or one message
AdvisoryTexts(r) ==
    IF r.kind # "ok" THEN <<ServiceErrorMessage>>
    ELSE IF r.listed /\ r.recommendations # <<>> THEN r.recommendations
    ELSE <<NoAiRecommendationsMessage>>

\* the suitable flag the service's answer alone decides
AdvisorySuitable(r) ==
    /\ r.kind = "ok"
    /\ r.listed
    /\ Len(r.recommendations) > 0
    /\ r.suitable # "false"

\* the request failed: fetch rejected, the status was not ok, or json() rejected
Failed(r) == r.kind \in {"network_error", "http_error", "malformed"}

\* the rule whose warning the detector emits for temperature t and pressure p
EmittedRule(t, p) ==
    LET f    == FormRecord("on_off", "carbon_steel", "", t, p, NoText, NoText)
        recs == EnvelopeDetector([recommendations |-> <<>>, suitable |-> TRUE],
                                 f).recommendations
    IN  IF recs = <<>> THEN 0 ELSE CHOOSE k \in 1..6 : RuleWarning(k) = recs[1]

\* the warning the envelope check gives a form, as a list
EnvelopePart(f) ==
    IF FirstRule(f) = 0 THEN <<>> ELSE <<RuleWarning(FirstRule(f))>>

\* every run of the handler has finished, and there is one at least
AllSettled ==
    /\ calls # <<>>
    /\ \A i \in 1..Len(calls) : calls[i].response # NoResponse

\* the panel shows a list: entries, no-results message hidden, styled alert-info
ShowsList ==
    /\ valveList # <<>>
    /\ noResultsHidden
    /\ "alert-info" \in resultsClasses
    /\ "alert-warning" \notin resultsClasses

\* the panel shows the no-results message, styled alert-warning
ShowsNoResults ==
    /\ valveList = <<>>
    /\ ~noResultsHidden
    /\ "alert-warning" \in resultsClasses
    /\ "alert-info" \notin resultsClasses

-----------------------------------------------------------------------------
(* The claims *)

\* C1: after every evaluation, suitable is true exactly when a primary function
\* is selected, the body material is viable, and the seal is unselected or
\* viable; a selected seal that is not viable makes suitable false whatever the
\* material verdict is.
C1_SuitableIsConjunction ==
    pc = "done" =>
        /\ suitable <=> (FunctionSelected(form.mainFunction) /\ materialViable /\ SealOk)
        /\ (form.sealSurfaceMaterial # "" /\ ~sealViable) => ~suitable

\* a selected seal fails while the function is selected and the material is viable
C1_Witness ==
    /\ pc = "done"
    /\ FunctionSelected(form.mainFunction)
    /\ materialViable
    /\ form.sealSurfaceMaterial # ""
    /\ ~sealViable
    /\ ~suitable

\* C2: whenever a primary function is selected, the candidate families of the
\* result are non-empty and are what the function mapper gives, also when
\* suitable is false.
C2_FamiliesPopulated ==
    (pc = "done" /\ FunctionSelected(form.mainFunction)) =>
        /\ CandidateFamilies(recommendations) # <<>>
        /\ CandidateFamilies(recommendations) = MainFunctionAdds(form.mainFunction)

\* a function is selected, the result is not suitable, the families are there
C2_Witness ==
    /\ pc = "done"
    /\ FunctionSelected(form.mainFunction)
    /\ ~suitable
    /\ ~materialViable
    /\ Len(CandidateFamilies(recommendations)) = 3

\* C3: the families of the result are, in this order and without duplicates,
\* on_off -> Gate, Butterfly, Ball, KnifeGate; regulation -> Globe,
\* WeirDiaphragm, Needle; on_off_regulation -> WeirDiaphragm, Butterfly, Globe,
\* KnifeGateWithVDeflector; unset -> none.
C3_FunctionMapping ==
    pc = "done" =>
        /\ FamilyIds(CandidateFamilies(recommendations)) = ExpectedFamilies(form.mainFunction)
        /\ NoDuplicates(FamilyIds(CandidateFamilies(recommendations)))

\* the on/off-and-regulation function has been mapped to its four families
C3_Witness ==
    /\ pc = "done"
    /\ form.mainFunction = "on_off_regulation"
    /\ Len(CandidateFamilies(recommendations)) = 4
    /\ FamilyId(recommendations[1]) = "WeirDiaphragm"

\* C4: for brass or bronze, a fluid that contains corrosive, acid or ammonia
\* makes the material not viable and the result not suitable at every
\* temperature and pressure.
C4_CopperAlloyChemical ==
    (/\ pc = "done"
     /\ form.bodyBonnetMaterial \in {"brass", "bronze"}
     /\ (Contains(form, KwCorrosive) \/ Contains(form, KwAcid) \/ Contains(form, KwAmmonia)))
    => (~materialViable /\ ~suitable)

\* C5: for brass with a nominal diameter above DN100 the material is not
\* viable, the size warning is emitted and the result is not suitable, while
\* the families of the selected function stay in the result.
C5_BrassSizeLimit ==
    (/\ pc = "done"
     /\ form.bodyBonnetMaterial = "brass"
     /\ OverDn100(form))
    => /\ ~materialViable
       /\ ~suitable
       /\ BrassSizeWarning \in Range(recommendations)
       /\ FunctionSelected(form.mainFunction) =>
              FamilyIds(CandidateFamilies(recommendations)) = ExpectedFamilies(form.mainFunction)

\* C6: for cast_iron, ductile_iron, carbon_steel, stainless_steel, brass,
\* bronze and plastic, with no override keyword in the fluid and no diameter,
\* the material is viable exactly when the range of the table holds, bounds
\* included.
C6_TableRanges ==
    (/\ pc = "done"
     /\ form.bodyBonnetMaterial \in {"cast_iron", "ductile_iron", "carbon_steel",
                                     "stainless_steel", "brass", "bronze", "plastic"}
     /\ NoOverrideKeyword(form)
     /\ form.nominalDiameter = <<>>)
    => (materialViable <=>
            TableRange(form.bodyBonnetMaterial, form.temperature, form.pressure))

\* plastic exactly on its limits, 60 degrees and 16 bar, is viable
C6_Witness ==
    /\ pc = "done"
    /\ form.bodyBonnetMaterial = "plastic"
    /\ NoOverrideKeyword(form)
    /\ form.temperature = 60 * Scale
    /\ form.pressure = 16 * Scale
    /\ materialViable

\* C7: stainless_steel_310 is viable exactly when -200 <= temperature <= 550
\* and pressure <= 400.
C7_Stainless310 ==
    (pc = "done" /\ form.bodyBonnetMaterial = "stainless_steel_310") =>
        (materialViable <=>
            /\ -200 * Scale <= form.temperature
            /\ form.temperature <= 550 * Scale
            /\ form.pressure <= 400 * Scale)

\* C8: cast_iron is viable exactly when temperature <= 184, pressure <= 16 and
\* the steam limit does not apply; the steam-limit warning is emitted exactly
\* when the fluid contains steam and temperature > 180 or pressure > 10.
C8_CastIron ==
    (pc = "done" /\ form.bodyBonnetMaterial = "cast_iron") =>
        /\ materialViable <=>
               /\ form.temperature <= 184 * Scale
               /\ form.pressure <= 16 * Scale
               /\ ~SteamLimit(form)
        /\ CastIronSteamWarning \in Range(recommendations) <=> SteamLimit(form)

\* steam between 180 and 184 degrees: the range holds and the steam limit forbids
C8_Witness ==
    /\ pc = "done"
    /\ form.bodyBonnetMaterial = "cast_iron"
    /\ Contains(form, KwSteam)
    /\ form.temperature > 180 * Scale
    /\ form.temperature <= 184 * Scale
    /\ form.pressure <= 10 * Scale
    /\ ~materialViable
    /\ CastIronSteamWarning \in Range(recommendations)

\* C9: the material verdict is viable only if the range of the table holds and
\* no override fired.
C9_OverridesRestrictOnly ==
    (pc = "done" /\ materialViable) =>
        /\ TableRange(form.bodyBonnetMaterial, form.temperature, form.pressure)
        /\ Range(recommendations) \cap OverrideWarnings = {}

\* C10: duplex_super_duplex is viable for every input; the sea-water note is
\* in the result exactly when the fluid contains the sea-water keyword, and
\* suitable is what the function and the seal alone decide.
C10_Duplex ==
    (pc = "done" /\ form.bodyBonnetMaterial = "duplex_super_duplex") =>
        /\ materialViable
        /\ DuplexSeaWaterNote \in Range(recommendations) <=> Contains(form, KwSeaWater)
        /\ suitable <=> (FunctionSelected(form.mainFunction) /\ SealOk)

\* duplex with sea water: viable, the note is there, the result is suitable
C10_Witness ==
    /\ pc = "done"
    /\ form.bodyBonnetMaterial = "duplex_super_duplex"
    /\ Contains(form, KwSeaWater)
    /\ DuplexSeaWaterNote \in Range(recommendations)
    /\ materialViable
    /\ suitable

C12_SealTable ==
    (pc = "done" /\ form.sealSurfaceMaterial # "") =>
        /\ sealChecked
        /\ sealViable <=> SealTable(form)

\* the stainless steel seal exactly on its limit of 420 degrees is viable
C12_Witness ==
    /\ pc = "done"
    /\ form.sealSurfaceMaterial = "stainless_steel_seal"
    /\ form.temperature = 420 * Scale
    /\ sealViable

\* C13: with no seal selected the seal evaluator is skipped: the result is what
\* the function and material logic alone produce, with no seal warning and no
\* seal no-match message.
C13_SealSkipped ==
    (pc = "done" /\ form.sealSurfaceMaterial = "") =>
        LET s0 == [recommendations |-> <<>>, suitable |-> TRUE]
            st == MaterialGate(MaterialSwitch(MainFunctionLogic(s0, form), form), form)
        IN  /\ ~sealChecked
            /\ recommendations = st.recommendations
            /\ suitable = st.suitable
            /\ Range(recommendations) \cap SealTexts = {}

\* no seal, at a temperature and with a fluid that would fail several seals
C13_Witness ==
    /\ pc = "done"
    /\ form.sealSurfaceMaterial = ""
    /\ form.temperature > 130 * Scale
    /\ Contains(form, KwAbrasive)
    /\ suitable

\* C14: the elastomer warning is emitted exactly when the fluid has abrasive or
\* corrosive, the ptfe warning exactly when the fluid has nuclear, the stellite
\* note whenever stellite is selected; rubber, copper alloys and the stainless
\* steel seal emit no warning of their own.
C14_SealWarnings ==
    pc = "done" =>
        /\ ElastomerWarning \in Range(recommendations) <=>
               /\ form.sealSurfaceMaterial = "elastomer"
               /\ (Contains(form, KwAbrasive) \/ Contains(form, KwCorrosive))
        /\ PtfeNuclearWarning \in Range(recommendations) <=>
               (form.sealSurfaceMaterial = "ptfe" /\ Contains(form, KwNuclear))
        /\ StelliteNote \in Range(recommendations) <=>
               form.sealSurfaceMaterial = "stellite"

\* elastomer above 120 degrees with an abrasive fluid: not viable, and warned
C14_Witness ==
    /\ pc = "done"
    /\ form.sealSurfaceMaterial = "elastomer"
    /\ form.temperature > 120 * Scale
    /\ Contains(form, KwAbrasive)
    /\ ~sealViable
    /\ ElastomerWarning \in Range(recommendations)

\* C15: for every temperature and pressure the envelope detector emits the
\* warning of the first rule, in the order 1..6, whose condition holds under
\* strict comparisons, and emits nothing when no condition holds.
C15_FirstMatchingRule ==
    Detected =>
        EnvelopeWarnings(recommendations) =
            IF FirstRule(form) = 0 THEN <<>> ELSE <<RuleWarning(FirstRule(form))>>

\* temperature 450 and pressure 250 yield the warning of rule 3
C15_Witness ==
    /\ pc = "done"
    /\ form.temperature = 450 * Scale
    /\ form.pressure = 250 * Scale
    /\ EnvelopeWarnings(recommendations) = <<SuperCriticalWarning>>

\* C16: in every evaluation the envelope detector contributes at most one
\* warning to the result.
C16_AtMostOneWarning ==
    Len(EnvelopeWarnings(recommendations)) <= 1

\* the conditions of two rules hold at once and one warning is in the result
C16_Witness ==
    /\ pc = "done"
    /\ Cardinality({k \in 1..6 :
                       RuleCondition(k, form.temperature, form.pressure)}) > 1
    /\ Len(EnvelopeWarnings(recommendations)) = 1

\* C17: for temperature 500 and pressure 0.5 the envelope detector emits the
\* high-temperature-vacuum warning of rule 6.
C17_Rule6AtHalfBar ==
    (Detected /\ form.temperature = 500 * Scale /\ 2 * form.pressure = Scale) =>
        HighTemperatureVacuumWarning \in Range(recommendations)

C20_HistoryFree ==
    \A i, j \in 1..Len(log) :
        log[i].form = log[j].form => log[i] = log[j]

\* the same form evaluated first and third, with another one in between
C20_Witness ==
    /\ Len(log) = 3
    /\ log[1].form = log[3].form
    /\ log[2].form # log[1].form
    /\ log[2].suitable # log[1].suitable
    /\ log[1].recommendations # <<>>

\* C24: for a brass body the size warning fires exactly when the nominal
\* diameter denotes a size strictly greater than 100; DN100, written "dn100"
\* or "100", does not trigger it.
C24_BrassSizeOver100 ==
    (pc = "done" /\ form.bodyBonnetMaterial = "brass") =>
        (BrassSizeWarning \in Range(recommendations) <=> OverDn100(form))

\* C30: no configuration that combines the stainless steel seal with a cast
\* iron, ductile iron, brass, bronze or plastic body is ever suitable.
C30_SealAndColdBodies ==
    (/\ pc = "done"
     /\ form.sealSurfaceMaterial = "stainless_steel_seal"
     /\ form.bodyBonnetMaterial \in
            {"cast_iron", "ductile_iron", "brass", "bronze", "plastic"})
    => ~suitable

\* the seal is viable at 420 degrees, the ductile iron body is not
C30_Witness ==
    /\ pc = "done"
    /\ form.sealSurfaceMaterial = "stainless_steel_seal"
    /\ form.bodyBonnetMaterial = "ductile_iron"
    /\ form.temperature = 420 * Scale
    /\ FunctionSelected(form.mainFunction)
    /\ sealViable
    /\ ~materialViable
    /\ ~suitable

\* C21: when the advisory call fails, exactly one warning is added and the
\* rule-based part computed before the call, its warnings and its suitable
\* flag, is still returned and displayed unchanged.
C21_FailureKeepsRuleResult ==
    (pc = "done" /\ Failed(response)) =>
        /\ Len(recommendations) = Len(EnvelopeWarnings(recommendations)) + 1
        /\ suitable <=> FirstRule(form) = 0
        /\ EnvelopeWarnings(valveList) = EnvelopeWarnings(recommendations)

\* C25: each of the six envelope rules is reachable: for every k in 1..6 there
\* is a temperature and a pressure >= 0 for which the warning emitted is that
\* of rule k.
C25_EveryRuleReachable ==
    Detected =>
        \A k \in 1..6 :
            \E t \in EnvelopeTemperatures, p \in EnvelopePressures :
                p >= 0 /\ EmittedRule(t, p) = k

\* C26: if an envelope rule fires for a submission, the submission is marked
\* unsuitable and ends in the no-results display, whatever the service answers.
C26_EnvelopeMarkKept ==
    (pc = "done" /\ FirstRule(form) # 0) =>
        /\ ~suitable
        /\ valveList = <<>>
        /\ ~noResultsHidden

\* C29: the envelope detector emits no warning whenever the temperature lies
\* in [0, 100] or the pressure lies in [1, 50].
C29_NoWarningInsideEnvelope ==
    (/\ Detected
     /\ \/ (0 <= form.temperature /\ form.temperature <= 100 * Scale)
        \/ (1 * Scale <= form.pressure /\ form.pressure <= 50 * Scale))
    => EnvelopeWarnings(recommendations) = <<>>

\* exactly 100 degrees under a pressure below 1 bar: no warning
C29_Witness ==
    /\ pc = "done"
    /\ form.temperature = 100 * Scale
    /\ form.pressure < 1 * Scale
    /\ EnvelopeWarnings(recommendations) = <<>>

\* C22: every valid submission reaches a displayed result, a list or the
\* no-results message, even when the service never answers: while the request
\* is pending, which may last for ever, a result is displayed already.
C22_ResultShownWhilePending ==
    pc = "awaiting" => (valveList # <<>> \/ ~noResultsHidden)

\* C23: runs of the handler that overlap do not interfere: in every
\* interleaving the recommendation set and the suitable flag of each run depend
\* only on its own form and its own response.
C23_RunsDoNotInterfere ==
    \A i \in 1..Len(calls) :
        LET c == calls[i]
        IN  IF c.response = NoResponse
            THEN /\ c.recommendations = EnvelopePart(c.form)
                 /\ c.suitable <=> FirstRule(c.form) = 0
            ELSE /\ c.recommendations = EnvelopePart(c.form) \o AdvisoryTexts(c.response)
                 /\ c.suitable <=> AdvisorySuitable(c.response)

\* two runs on different forms, the second submitted while the first awaited,
\* the second answered first, with different outcomes
C23_Witness ==
    /\ Len(calls) = 2
    /\ Len(log) = 2
    /\ calls[1].form # calls[2].form
    /\ log[1].form = calls[2].form
    /\ EnvelopePart(calls[1].form) # EnvelopePart(calls[2].form)
    /\ calls[1].suitable # calls[2].suitable

\* C27: whenever at least one submission has completed and none is in flight,
\* the panel shows either a non-empty list styled alert-info with the
\* no-results message hidden, or the no-results message styled alert-warning
\* with an empty list.
C27_PanelInOneOfTwoStates ==
    AllSettled => (ShowsList \/ ShowsNoResults)

\* C28: when two submissions overlap, the result displayed once both have
\* completed is that of the most recently submitted form, whichever response
\* arrives first.
C28_LastSubmittedWins ==
    (AllSettled /\ Len(calls) >= 2) =>
        LET last  == calls[Len(calls)]
            shown == last.suitable /\ last.recommendations # <<>>
        IN  /\ valveList = IF shown THEN last.recommendations ELSE <<>>
            /\ noResultsHidden <=> shown

====
